---------------------------- MODULE Spec2Model ----------------------------
(***************************************************************************)
(* A model of src/main.py: one training run of main_worker.  The state is  *)
(* the part of `args` the run reads and mutates (conv_type, prune_rate,    *)
(* prune_rate_epoch, start_epoch, epochs), the locals of main_worker that  *)
(* outlive one statement (epoch, final_prune_rate, best_acc1, global_pr,   *)
(* prune_dict), the network as named_modules() lists it, the files the run *)
(* writes, and the position of control.                                    *)
(*                                                                         *)
(* Rates are Python floats in the source.  They are modelled as exact      *)
(* rationals in lowest terms, so that equality of two rates is equality of *)
(* records.  The run modelled is a training run (args.evaluate false),     *)
(* started from scratch or resumed from a checkpoint (args.resume).        *)
(***************************************************************************)
EXTENDS Integers, Sequences, FiniteSets, TLC

(***************************************************************************)
(* Bounds of the model.                                                    *)
(***************************************************************************)
RateDen == 4      \* user rates are k/RateDen, k in -1 .. RateDen+1
MaxAnneal == 3    \* args.prune_rate_epoch in 0 .. MaxAnneal
MaxStart == 1     \* args.start_epoch in 0 .. MaxStart
MaxEpochs == 4    \* args.epochs in 0 .. MaxEpochs
MaxLayers == 2    \* prunable layers (Spec) / modules (SpecReport) of a network
MaxNumel == 2     \* elements of one score tensor

(***************************************************************************)
(* Exact rational arithmetic standing for the float arithmetic.            *)
(***************************************************************************)
Abs(x) == IF x < 0 THEN -x ELSE x

RECURSIVE GCD(_, _)
GCD(a, b) == IF b = 0 THEN a ELSE GCD(b, a % b)

\* n/d in lowest terms with a positive denominator (d # 0).
Frac(n, d) ==
    LET g == GCD(Abs(n), Abs(d))
        s == IF d < 0 THEN -1 ELSE 1
    IN  [num |-> (s * n) \div g, den |-> (s * d) \div g]

RInt(n) == [num |-> n, den |-> 1]
RAdd(x, y) == Frac(x.num * y.den + y.num * x.den, x.den * y.den)
RSub(x, y) == Frac(x.num * y.den - y.num * x.den, x.den * y.den)
RMul(x, y) == Frac(x.num * y.num, x.den * y.den)
\* A variant of RDivInt with one slip: the division left out.
RDivInt_Forgotten(x, n) == x

RDivInt(x, n) == Frac(x.num, x.den * n)
RLeq(x, y) == x.num * y.den <= y.num * x.den
RLt(x, y) == x.num * y.den < y.num * x.den

\* The literal 0.5 of lines 183 and 185.
Half == Frac(1, 2)

(***************************************************************************)
(* Inputs.                                                                 *)
(***************************************************************************)
ConvTypes ==
    {"DenseConv", "SubnetConv", "GlobalSubnetConv", "SampleSubnetConv",
     "ContinuousSparseConv"}

Rates == {Frac(k, RateDen) : k \in -1 .. RateDen + 1}

\* Top-1 accuracies validate() may return, in percent: one below and one
\* above the "not learning" limit of line 218.
AccValues == {1, 50}

\* The limit of line 218.
MinBestAcc == 2

\* Values of one layer's sampled prune fraction (lines 297-305): the mean of
\* means of a boolean tensor, a number in [0, 1].
SampleMeans == {Frac(0, 1), Frac(1, 2), Frac(1, 1)}

\* Values of args.save_every: negative, zero and positive.
SaveEveryValues == {-1, 0, 2}

\* Values a clamped score and the prune threshold take.
ScoreValues == {0, 1}

\* Python's None, for args.start_epoch (line 385), best_acc1 (line 115) and
\* acc1 (line 143): a value apart from every epoch and every accuracy.
None == -1

(***************************************************************************)
(* Values of args.resume: not given, the path of no file, or the path of a *)
(* checkpoint file, with the "epoch" and "best_acc1" the file holds.       *)
(***************************************************************************)
NoResume == [path |-> "", isfile |-> FALSE, epoch |-> 0, best_acc1 |-> 0]

MissingFile == [path |-> "missing", isfile |-> FALSE, epoch |-> 0, best_acc1 |-> 0]

Checkpoint(e, b) == [path |-> "checkpoint", isfile |-> TRUE, epoch |-> e, best_acc1 |-> b]

ResumeValues == {NoResume, MissingFile} \cup {Checkpoint(2, b) : b \in {1, 90}}

(***************************************************************************)
(* The network, as model.named_modules() lists it: a sequence of modules   *)
(* with distinct names.  `kind` is the module's class: the convolution     *)
(* class args.conv_type names, or "Module" for every other module (the     *)
(* root container, batch norms, ...).                                      *)
(***************************************************************************)
ModuleName(i) == "m" \o ToString(i)

PlainModule == [kind |-> "Module", clamped_scores |-> <<>>, prune_threshold |-> 0]

ConvModule(ct, scores, t) ==
    [kind |-> ct, clamped_scores |-> scores, prune_threshold |-> t]

Named(bodies) ==
    [i \in 1 .. Len(bodies) |->
        [name |-> ModuleName(i), kind |-> bodies[i].kind,
         clamped_scores |-> bodies[i].clamped_scores,
         prune_threshold |-> bodies[i].prune_threshold]]

Tensors == UNION {[1 .. n -> ScoreValues] : n \in 1 .. MaxNumel}

\* Every network of at most MaxLayers modules, with one threshold shared
\* by its prunable layers (line 637).
Models(ct) ==
    UNION { { Named(b) :
                b \in [1 .. n -> {PlainModule}
                                 \cup {ConvModule(ct, s, t) : s \in Tensors}] }
            : n \in 0 .. MaxLayers, t \in ScoreValues }

\* The networks of the training runs: the root container followed by k
\* convolution layers of class ct.  main_worker itself never writes a score
\* or a threshold (train() does, outside this file), so a run carries one
\* network; the reporter is checked over every network under SpecReport.
RunModels(ct) ==
    { Named(<<PlainModule>> \o [i \in 1 .. k |-> ConvModule(ct, <<0, 1>>, 1)])
        : k \in 0 .. MaxLayers }

VARIABLES
    pc,                 \* position of control in main_worker
    err,                \* the exception that ended the run, or "none"
    conv_type,          \* args.conv_type
    prune_rate,         \* args.prune_rate
    prune_rate_epoch,   \* args.prune_rate_epoch
    start_epoch,        \* args.start_epoch
    epochs,             \* args.epochs
    epoch,              \* the loop variable of line 179
    final_prune_rate,   \* the local of line 175; <<>> until assigned
    best_acc1,          \* the local of lines 109, 115, 213
    acc1,               \* the local of lines 107, 143, 208
    model,              \* the network
    global_pr,          \* the local of lines 320, 327; <<>> until assigned
    prune_dict,         \* the local of line 320; <<>> until assigned
    pkl_file,           \* global_prune_rate_dictionary.pkl; <<>> until written
    csv,                \* the rows appended to the results CSV
    save_every,         \* args.save_every
    ckpt,               \* the last save_checkpoint of lines 226-253; <<>> if none
    raised_at           \* the line of main.py that raised err, or 0

vars ==
    <<pc, err, conv_type, prune_rate, prune_rate_epoch, start_epoch, epochs,
      epoch, final_prune_rate, best_acc1, acc1, model, global_pr, prune_dict,
      pkl_file, csv, save_every, ckpt, raised_at>>

\* What main_worker never assigns.
given == <<conv_type, prune_rate_epoch, epochs, save_every>>

\* What main_worker never assigns after set-up.
args == <<conv_type, prune_rate_epoch, start_epoch, epochs, save_every>>

report == <<global_pr, prune_dict, pkl_file, csv>>

(***************************************************************************)
(* get_model, lines 457-464: the only check of the rate at set-up.         *)
(***************************************************************************)
get_model_raises(ct, rate) ==
    /\ ct # "DenseConv"
    /\ ct # "SampleSubnetConv"
    /\ ct # "ContinuousSparseConv"
    /\ RLt(rate, RInt(0))

(***************************************************************************)
(* Lines 182-190: the rate in force during epoch e, from the rate `cur`    *)
(* left by the epoch before and the rate `final` saved at line 175.        *)
(***************************************************************************)
AnnealedRate(e, n, final) ==
    LET prune_decay ==
            LET b == RSub(RInt(1), Frac(e, n)) IN RMul(b, RMul(b, b))
        curr_prune_rate ==
            RAdd(RSub(RInt(1), final),
                 RMul(RSub(Half, RSub(RInt(1), final)), prune_decay))
    IN  RSub(RInt(1), curr_prune_rate)

\* Variants of NextPruneRate, each with one slip: no branch for e = n; the
\* guard of line 183 strict; no guard at line 183; no test of the mode.
NextPruneRate_NoSnap(ct, e, n, cur, final) ==
    IF ct = "GlobalSubnetConv" /\ e < n
    THEN IF RLeq(cur, Half) THEN AnnealedRate(e, n, final) ELSE cur
    ELSE cur

NextPruneRate_StrictGuard(ct, e, n, cur, final) ==
    IF ct = "GlobalSubnetConv" /\ e < n
    THEN IF RLt(cur, Half) THEN AnnealedRate(e, n, final) ELSE cur
    ELSE IF ct = "GlobalSubnetConv" /\ e = n
         THEN final
         ELSE cur

NextPruneRate_NoGuard(ct, e, n, cur, final) ==
    IF ct = "GlobalSubnetConv" /\ e < n
    THEN AnnealedRate(e, n, final)
    ELSE IF ct = "GlobalSubnetConv" /\ e = n
         THEN final
         ELSE cur

NextPruneRate_AnyMode(ct, e, n, cur, final) ==
    IF e < n
    THEN IF RLeq(cur, Half) THEN AnnealedRate(e, n, final) ELSE cur
    ELSE IF e = n
         THEN final
         ELSE cur

NextPruneRate(ct, e, n, cur, final) ==
    IF ct = "GlobalSubnetConv" /\ e < n
    THEN IF RLeq(cur, Half) THEN AnnealedRate(e, n, final) ELSE cur
    ELSE IF ct = "GlobalSubnetConv" /\ e = n
         THEN final
         ELSE cur

(***************************************************************************)
(* GetGlobalSubnet.apply (utils.conv_type, not in src/): the mask of a     *)
(* layer under the shared threshold, 1 where the score reaches the         *)
(* threshold and 0 elsewhere.                                              *)
(***************************************************************************)
GetGlobalSubnet(scores, t) ==
    [i \in 1 .. Len(scores) |-> IF scores[i] >= t THEN 1 ELSE 0]

RECURSIVE count_nonzero(_)
count_nonzero(w) ==
    IF w = <<>> THEN 0
    ELSE (IF Head(w) # 0 THEN 1 ELSE 0) + count_nonzero(Tail(w))

hasattr_prune_threshold(m) == m.kind = "GlobalSubnetConv"

(***************************************************************************)
(* global_prune_rate, lines 609-650.  LayerLoop is the loop of lines       *)
(* 618-638 from module i on; acc holds total_weights, unpruned_weights and *)
(* prune_dict.                                                             *)
(***************************************************************************)
\* A variant of LayerEntry with one slip: the percentage kept.
LayerEntry_Kept(layer_unpruned, layer_total) ==
    RMul(RInt(100), Frac(layer_unpruned, layer_total))

LayerEntry(layer_unpruned, layer_total) ==
    LET layer_prune_rate == RSub(RInt(1), Frac(layer_unpruned, layer_total))
    IN  RMul(RInt(100), layer_prune_rate)

RECURSIVE LayerLoop(_, _, _)
LayerLoop(mdl, i, acc) ==
    IF i > Len(mdl) THEN acc
    ELSE LET m == mdl[i] IN
         IF hasattr_prune_threshold(m)
         THEN LET layer_total == Len(m.clamped_scores)
                  w == GetGlobalSubnet(m.clamped_scores, m.prune_threshold)
                  layer_unpruned == count_nonzero(w)
              IN  LayerLoop(mdl, i + 1,
                    [total_weights |-> acc.total_weights + layer_total,
                     unpruned_weights |-> acc.unpruned_weights + layer_unpruned,
                     prune_dict |-> (m.name :> LayerEntry(layer_unpruned, layer_total))
                                       @@ acc.prune_dict])
         ELSE LayerLoop(mdl, i + 1, acc)

\* Line 650: the pair returned, once final_prune_rate (line 643) is known.
ReturnedRate(unpruned_weights, total_weights) ==
    LET final_rate == RSub(RInt(1), Frac(unpruned_weights, total_weights))
    IN  RSub(RInt(1), final_rate)

global_prune_rate(mdl) ==
    LET acc == LayerLoop(mdl, 1,
                 [total_weights |-> 0, unpruned_weights |-> 0, prune_dict |-> <<>>])
    IN  IF acc.total_weights = 0
        THEN [raises |-> TRUE, rate |-> RInt(0), prune_dict |-> <<>>]
        ELSE [raises |-> FALSE,
              rate |-> ReturnedRate(acc.unpruned_weights, acc.total_weights),
              prune_dict |-> acc.prune_dict]

(***************************************************************************)
(* Lines 291-311, the sample-based mode: the rate becomes the average over *)
(* the SampleSubnetConv modules of their sampled prune fractions.  pr[i]   *)
(* is the fraction drawn for module i.                                     *)
(***************************************************************************)
isinstance_SampleSubnetConv(m) == m.kind = "SampleSubnetConv"

RECURSIVE SampleLoop(_, _, _, _)
SampleLoop(mdl, pr, i, acc) ==
    IF i > Len(mdl) THEN acc
    ELSE IF isinstance_SampleSubnetConv(mdl[i])
         THEN SampleLoop(mdl, pr, i + 1,
                [count |-> acc.count + 1, sum_pr |-> RAdd(acc.sum_pr, pr[i])])
         ELSE SampleLoop(mdl, pr, i + 1, acc)

\* The modules lines 297-305 draw a fraction for.
SampleModules(mdl) == {i \in DOMAIN mdl : isinstance_SampleSubnetConv(mdl[i])}

SampleTotals(mdl, pr) == SampleLoop(mdl, pr, 1, [count |-> 0, sum_pr |-> RInt(0)])

(***************************************************************************)
(* Line 221: the periodic-save flag.  Python's % takes the sign of the     *)
(* divisor and raises ZeroDivisionError on a zero divisor; the left        *)
(* operand of `and` is evaluated first.                                    *)
(***************************************************************************)
PyMod(a, b) == IF b > 0 THEN a % b ELSE -((-a) % (-b))

\* A variant of SaveFlag with one slip: a periodic save for every divisor.
SaveFlag_NoSign(e, se) ==
    [raises |-> se = 0, save |-> se # 0 /\ PyMod(e, se) = 0]

SaveFlag(e, se) ==
    [raises |-> se = 0, save |-> se # 0 /\ PyMod(e, se) = 0 /\ se > 0]

(***************************************************************************)
(* resume, lines 380-399: what line 115 assigns to best_acc1 and what      *)
(* args.start_epoch is afterwards.  Without a file the function falls off  *)
(* its end and returns None.                                               *)
(***************************************************************************)
resume(rs, start) ==
    IF rs.isfile
    THEN [best_acc1 |-> rs.best_acc1,
          start_epoch |-> IF start = None THEN rs.epoch ELSE start]
    ELSE [best_acc1 |-> None, start_epoch |-> start]

\* Lines 109-115: best_acc1 and args.start_epoch once line 115 is passed.
AfterResume(rs, start) ==
    IF rs.path # ""
    THEN resume(rs, start)
    ELSE [best_acc1 |-> 0, start_epoch |-> start]

\* Line 142: args.start_epoch or 0.
StartOrZero(start) == IF start = None \/ start = 0 THEN 0 ELSE start

(***************************************************************************)
(* The state when main_worker is entered.                                  *)
(***************************************************************************)
Fresh ==
    /\ pc = "setup"
    /\ err = "none"
    /\ epoch = 0
    /\ final_prune_rate = <<>>
    /\ best_acc1 = 0
    /\ acc1 = 0
    /\ global_pr = <<>>
    /\ prune_dict = <<>>
    /\ pkl_file = <<>>
    /\ csv = <<>>
    /\ ckpt = <<>>
    /\ raised_at = 0

Init ==
    /\ Fresh
    /\ conv_type \in ConvTypes
    /\ prune_rate \in Rates
    /\ prune_rate_epoch \in 0 .. MaxAnneal
    /\ start_epoch \in {None} \cup 0 .. MaxStart
    /\ epochs \in 0 .. MaxEpochs
    /\ model \in RunModels(conv_type)
    /\ save_every \in SaveEveryValues

Raise(e, line) ==
    /\ pc' = "raised"
    /\ err' = e
    /\ raised_at' = line

Goto(p) ==
    /\ pc' = p
    /\ UNCHANGED <<err, raised_at>>

(***************************************************************************)
(* Lines 56-175: set-up up to the loop.  get_model may raise (line 64);    *)
(* args.resume, if given, sets best_acc1 and may set args.start_epoch      *)
(* (line 115); get_directories raises without a config and a name (line    *)
(* 128); otherwise the loop starts at args.start_epoch with the rate saved *)
(* in final_prune_rate and acc1 reset to None.  args_resume is             *)
(* args.resume, named whether args.config and args.name are both given.    *)
(***************************************************************************)
Setup ==
    /\ pc = "setup"
    /\ \E args_resume \in ResumeValues, named \in BOOLEAN :
         IF get_model_raises(conv_type, prune_rate)
         THEN /\ Raise("ValueError", 464)
              /\ UNCHANGED <<start_epoch, epoch, final_prune_rate, best_acc1, acc1>>
         ELSE LET r == AfterResume(args_resume, start_epoch) IN
              /\ best_acc1' = r.best_acc1
              /\ IF ~named
                 THEN /\ Raise("ValueError", 523)
                      /\ start_epoch' = r.start_epoch
                      /\ UNCHANGED <<epoch, final_prune_rate, acc1>>
                 ELSE /\ Goto("loop")
                      /\ start_epoch' = StartOrZero(r.start_epoch)
                      /\ epoch' = StartOrZero(r.start_epoch)
                      /\ final_prune_rate' = <<prune_rate>>
                      /\ acc1' = None
    /\ UNCHANGED <<given, prune_rate, model, report, ckpt>>

(***************************************************************************)
(* Lines 179-190: the loop takes epoch `epoch` and sets the rate for it.   *)
(***************************************************************************)
Anneal ==
    /\ pc = "loop"
    /\ epoch < epochs
    /\ prune_rate' = NextPruneRate(conv_type, epoch, prune_rate_epoch,
                                   prune_rate, final_prune_rate[1])
    /\ Goto("train")
    /\ UNCHANGED <<args, epoch, final_prune_rate, best_acc1, acc1, model, report,
                   ckpt>>

(***************************************************************************)
(* Lines 193-314: the body of one epoch after the rate is set.  a is what  *)
(* validate() returns, pr what the sampling of lines 298-305 draws.  The   *)
(* comparison of line 212 raises when best_acc1 is None.                   *)
(***************************************************************************)
TrainEpoch ==
    /\ pc = "train"
    /\ \E a \in AccValues, pr \in [SampleModules(model) -> SampleMeans] :
         LET is_best == a > best_acc1
             best == IF a > best_acc1 THEN a ELSE best_acc1
             flag == SaveFlag(epoch, save_every)
             tot == SampleTotals(model, pr)
             saved == IF is_best \/ flag.save \/ epoch = epochs - 1
                      THEN <<[epoch |-> epoch + 1, save |-> flag.save]>>
                      ELSE ckpt
         IN  /\ acc1' = a
             /\ IF best_acc1 = None
                THEN /\ Raise("TypeError", 212)
                     /\ UNCHANGED <<best_acc1, prune_rate, epoch, ckpt>>
                ELSE IF best < MinBestAcc /\ epoch > 1
                THEN /\ Raise("SystemExit", 219)
                     /\ best_acc1' = best
                     /\ UNCHANGED <<prune_rate, epoch, ckpt>>
                ELSE IF flag.raises
                THEN /\ Raise("ZeroDivisionError", 221)
                     /\ best_acc1' = best
                     /\ UNCHANGED <<prune_rate, epoch, ckpt>>
                ELSE IF conv_type = "SampleSubnetConv" /\ tot.count = 0
                THEN /\ Raise("ZeroDivisionError", 310)
                     /\ best_acc1' = best
                     /\ ckpt' = saved
                     /\ UNCHANGED <<prune_rate, epoch>>
                ELSE /\ best_acc1' = best
                     /\ prune_rate' = IF conv_type = "SampleSubnetConv"
                                      THEN RDivInt(tot.sum_pr, tot.count)
                                      ELSE prune_rate
                     /\ ckpt' = saved
                     /\ epoch' = epoch + 1
                     /\ Goto("loop")
    /\ UNCHANGED <<args, final_prune_rate, model, report>>

(***************************************************************************)
(* Lines 318-327, once the loop is over: in global mode the reporter runs  *)
(* and its dictionary is pickled; otherwise global_pr is the rate.         *)
(***************************************************************************)
Finalize ==
    /\ pc = "loop"
    /\ epoch >= epochs
    /\ IF conv_type = "GlobalSubnetConv"
       THEN LET r == global_prune_rate(model) IN
            IF r.raises
            THEN /\ Raise("ZeroDivisionError", 643)
                 /\ UNCHANGED <<global_pr, prune_dict, pkl_file>>
            ELSE /\ global_pr' = <<r.rate>>
                 /\ prune_dict' = <<r.prune_dict>>
                 /\ pkl_file' = <<r.prune_dict>>
                 /\ Goto("write")
       ELSE /\ global_pr' = <<prune_rate>>
            /\ Goto("write")
            /\ UNCHANGED <<prune_dict, pkl_file>>
    /\ UNCHANGED <<args, prune_rate, epoch, final_prune_rate, best_acc1, acc1, model,
                   csv, ckpt>>

(***************************************************************************)
(* Lines 330-348 and write_result_to_csv, lines 555-606: one row, built    *)
(* from the keyword arguments of the call.  The format of lines 586-605    *)
(* applies ":.02f" to curr_acc1 and best_acc1 and raises on None: acc1 is  *)
(* still the None of line 143 when the loop ran no epoch.                  *)
(***************************************************************************)
FormatRaises(curr_acc1, best) == curr_acc1 = None \/ best = None

write_result_to_csv ==
    /\ pc = "write"
    /\ IF FormatRaises(acc1, best_acc1)
       THEN /\ Raise("TypeError", 586)
            /\ UNCHANGED csv
       ELSE /\ csv' = Append(csv, [curr_acc1 |-> acc1, best_acc1 |-> best_acc1,
                                    prune_rate |-> prune_rate, epochs |-> epochs])
            /\ Goto("done")
    /\ UNCHANGED <<args, prune_rate, epoch, final_prune_rate, best_acc1, acc1,
                   model, global_pr, prune_dict, pkl_file, ckpt>>

Next ==
    \/ Setup
    \/ Anneal
    \/ TrainEpoch
    \/ Finalize
    \/ write_result_to_csv

Spec == Init /\ [][Next]_vars

(***************************************************************************)
(* The reporter on its own: global-mode runs of no epoch, over every       *)
(* network of the bounds.                                                  *)
(***************************************************************************)
InitReport ==
    /\ Fresh
    /\ conv_type = "GlobalSubnetConv"
    /\ prune_rate \in {r \in Rates : RLeq(RInt(0), r) /\ RLeq(r, RInt(1))}
    /\ prune_rate_epoch = 0
    /\ start_epoch = 0
    /\ epochs = 0
    /\ model \in Models(conv_type)
    /\ save_every \in SaveEveryValues

NextReport ==
    \/ Setup
    \/ Finalize
    \/ write_result_to_csv

SpecReport == InitReport /\ [][NextReport]_vars

(***************************************************************************)
(* Properties.                                                             *)
(***************************************************************************)
Global == conv_type = "GlobalSubnetConv"

\* The rate the user gave, once line 175 has saved it.
UserRate == final_prune_rate[1]

\* The run is inside epoch `epoch`: the rate of the epoch is set.
InEpoch == pc = "train"

Cube(x) == x * x * x

\* Counting a layer's survivors directly against its threshold.
KeptCount(m) ==
    Cardinality({i \in DOMAIN m.clamped_scores :
                    m.clamped_scores[i] >= m.prune_threshold})

Prunable == {i \in DOMAIN model : model[i].kind = "GlobalSubnetConv"}

RECURSIVE SumOver(_, _)
SumOver(S, f) ==
    IF S = {} THEN 0
    ELSE LET i == CHOOSE j \in S : TRUE IN f[i] + SumOver(S \ {i}, f)

TotalKept == SumOver(Prunable, [i \in Prunable |-> KeptCount(model[i])])
TotalElements == SumOver(Prunable, [i \in Prunable |-> Len(model[i].clamped_scores)])

\* C1 (as claimed): in global mode with a final rate of at most 0.5 and
\* annealEpochs > 0, the prune rate does not decrease from one executed
\* epoch to the next over the epochs 0 .. annealEpochs.
C1_RateNonDecreasing ==
    [][(/\ pc = "loop"
        /\ pc' = "train"
        /\ Global
        /\ RLeq(UserRate, Half)
        /\ prune_rate_epoch > 0
        /\ epoch > start_epoch
        /\ epoch <= prune_rate_epoch)
       => RLeq(prune_rate, prune_rate')]_vars

\* C2: in global mode, during epoch annealEpochs and during every later
\* epoch, the prune rate is exactly the rate the user gave.
C2_SnapToFinal ==
    (Global /\ InEpoch /\ epoch >= prune_rate_epoch) => prune_rate = UserRate

C2_Witness ==
    /\ Global
    /\ InEpoch
    /\ start_epoch = 0
    /\ prune_rate_epoch > 0
    /\ epoch = prune_rate_epoch
    /\ RLt(UserRate, Half)

\* C3: in global mode with final rate f <= 0.5 and N = annealEpochs > 0,
\* during every epoch e < N the keep fraction is
\* (1-f) + (0.5 - (1-f)) * (1 - e/N)^3 and the prune rate is 1 minus it, the
\* guard on the current rate never switching the annealing off; at e = 0 the
\* prune rate is 0.5.  With f = a/b the keep fraction is
\* (2(b-a)N^3 - (b-2a)(N-e)^3) / (2bN^3).
C3_CubicSchedule ==
    (Global /\ InEpoch /\ RLeq(UserRate, Half) /\ prune_rate_epoch > 0
        /\ epoch < prune_rate_epoch)
    => LET a == UserRate.num
           b == UserRate.den
           n3 == Cube(prune_rate_epoch)
           d3 == Cube(prune_rate_epoch - epoch)
           keep_num == prune_rate.den - prune_rate.num
       IN  /\ keep_num * (2 * b * n3)
                = prune_rate.den * (2 * (b - a) * n3 - (b - 2 * a) * d3)
           /\ prune_rate.num * (2 * b * n3)
                = prune_rate.den * (2 * a * n3 + (b - 2 * a) * d3)
           /\ epoch = 0 => prune_rate = Half

C3_Witness ==
    /\ Global
    /\ InEpoch
    /\ start_epoch = 0
    /\ epoch > 0
    /\ epoch < prune_rate_epoch
    /\ RLt(UserRate, Half)
    /\ RLt(prune_rate, Half)

\* C4 (as claimed): when the reporter has run at the end of a global-mode
\* run, the prune rate in force is the rate the user gave.
C4_ReportAtFinalRate ==
    (Global /\ pc = "write") => prune_rate = UserRate

\* C5 (as claimed): the aggregate global_prune_rate returns is
\* 1 - (nonzero counts summed over the prunable layers / their element
\* counts summed), the fraction of weights dropped.
C5_AggregateIsDropped ==
    (Global /\ pc = "write")
    => global_pr[1].num * TotalElements
         = global_pr[1].den * (TotalElements - TotalKept)

\* C6: the mapping global_prune_rate returns has exactly one entry per
\* module with a prune_threshold, keyed by the module's name, and the entry
\* is 100 * (1 - survivors / elements), the survivors counted directly
\* against the layer's threshold.
C6_EntryPerPrunableLayer ==
    (Global /\ pc = "write")
    => LET d == prune_dict[1] IN
       /\ DOMAIN d = {model[i].name : i \in Prunable}
       /\ Cardinality(DOMAIN d) = Cardinality(Prunable)
       /\ \A i \in Prunable :
            LET total == Len(model[i].clamped_scores)
                v == d[model[i].name]
            IN  v.num * total = v.den * 100 * (total - KeptCount(model[i]))

C6_Witness ==
    /\ Global
    /\ pc = "write"
    /\ \E i \in DOMAIN model : model[i].kind = "Module"
    /\ \E i \in Prunable : prune_dict[1][model[i].name] = RInt(50)

\* C7 (as claimed): in every mode that uses the rate, a rate outside [0,1]
\* is rejected at set-up, so no training epoch runs unless the rate the
\* user gave is in [0,1].
C7_OutOfRangeRejected ==
    (/\ conv_type \notin {"DenseConv", "SampleSubnetConv", "ContinuousSparseConv"}
     /\ InEpoch)
    => (RLeq(RInt(0), UserRate) /\ RLeq(UserRate, RInt(1)))

\* C8 (as claimed): in every mode other than global the prune rate keeps
\* the value the user gave through the whole run.
C8_ConstantOutsideGlobal ==
    (~Global /\ final_prune_rate # <<>>) => prune_rate = UserRate

\* C8 (amended): in every mode other than global and sample-based the prune
\* rate keeps the value the user gave through the whole run.
C8_ConstantOutsideGlobalAndSample ==
    (conv_type \notin {"GlobalSubnetConv", "SampleSubnetConv"}
        /\ final_prune_rate # <<>>)
    => prune_rate = UserRate

C8_Witness ==
    /\ conv_type = "SubnetConv"
    /\ pc = "done"
    /\ start_epoch = 0
    /\ prune_rate_epoch > 0
    /\ epoch >= 2
    /\ RLt(prune_rate, Half)

\* C9: in global mode with a final rate above 0.5 the prune rate is the
\* rate the user gave during every epoch, epoch 0 included.
C9_NoAnnealAboveHalf ==
    (Global /\ InEpoch /\ RLt(Half, UserRate)) => prune_rate = UserRate

C9_Witness ==
    /\ Global
    /\ InEpoch
    /\ RLt(Half, UserRate)
    /\ epoch = 0
    /\ epoch < prune_rate_epoch

\* C10 (as claimed): at the end of a global-mode run both the mapping and
\* the aggregate computed by global_prune_rate have been written out, to
\* the pickled record or to the row of the results CSV.
C10_ReportPersisted ==
    (Global /\ pc = "done")
    => /\ pkl_file = prune_dict
       /\ \E k \in DOMAIN csv : csv[k].prune_rate = global_pr[1]

InUnit(r) == RLeq(RInt(0), r) /\ RLeq(r, RInt(1))

\* The rate the user supplied: args.prune_rate as main_worker finds it.
SuppliedRate == IF final_prune_rate = <<>> THEN prune_rate ELSE UserRate

\* C11: if the rate the user supplied is in [0,1], the current prune rate is
\* in [0,1] in every state of the run, in every mode: annealed in global
\* mode, overwritten by the sampled average in sample-based mode.
C11_RateInUnitInterval ==
    InUnit(SuppliedRate) => InUnit(prune_rate)

C11_Witness ==
    /\ conv_type = "SampleSubnetConv"
    /\ InUnit(SuppliedRate)
    /\ pc = "loop"
    /\ epoch > start_epoch
    /\ prune_rate # UserRate
    /\ Cardinality({i \in DOMAIN model : model[i].kind = "SampleSubnetConv"}) > 1

\* The last epoch of the loop has run to its end.
LastEpochDone == pc = "loop" /\ epoch = epochs /\ epochs > start_epoch

\* What C12 says of one non-positive value of args.save_every: line 221
\* does not raise, and the last epoch leaves a checkpoint that is not a
\* periodic save.
SaveEveryHarmless ==
    /\ ~(pc = "raised" /\ raised_at = 221)
    /\ LastEpochDone => ckpt = <<[epoch |-> epochs, save |-> FALSE]>>

\* C12 (as claimed): for every args.save_every <= 0, zero included, the
\* periodic-save flag is false and computed without an error, so every epoch
\* gets past the checkpoint decision and the last epoch writes a checkpoint.
C12_NonPositiveSaveEvery ==
    save_every <= 0 => SaveEveryHarmless

\* The same for the negative values alone.
C12_NegativeSaveEvery ==
    save_every < 0 => SaveEveryHarmless

\* C13 (as claimed): neither rate summary divides by zero, whatever the
\* network: not the sample-based average of line 310, not global_prune_rate
\* at line 643.
C13_NoDivisionByZero ==
    ~(pc = "raised" /\ err = "ZeroDivisionError" /\ raised_at \in {310, 643})

=============================================================================
